---- MODULE Spec2Model ----
(***************************************************************************)
(* Incremental monthly price pipeline of evni0812/energyprices:            *)
(* fetch_prices.main() with the electricity provider                       *)
(* (fetch_dynamic_electricity.py), the batched gas provider                *)
(* (fetch_dynamic_gas.py) and the merge of fresh monthly aggregates into   *)
(* the persisted monthly CSV files.                                        *)
(*                                                                         *)
(* Conventions of the model                                                *)
(*  - an instant is a number of hours since 1970-01-01T00:00 UTC; a naive  *)
(*    datetime is the same number read as a wall clock;                    *)
(*  - a 'YYYY-MM' string is the number year*100+month (202106): for four   *)
(*    digit years the string order the code uses (<, sort_values) is the   *)
(*    order of these numbers; a 'YYYY-MM-DD' date key is a day number;     *)
(*  - a price is a whole number of 1e-5 EUR, the unit build_monthly_csv    *)
(*    rounds to; a raw gas price is a whole number of cents;               *)
(*  - a raw provider record is [wall, off, val]: the wall-clock reading    *)
(*    and the UTC offset (hours) its ISO timestamp carries and its price   *)
(*    (Null: the field is absent or null).                                 *)
(***************************************************************************)
EXTENDS Integers, Sequences, FiniteSets, TLC

\* ------------------------------------------------------------ calendar

\* datetime(y, m, d) as a day number (proleptic Gregorian calendar).
DaysFromCivil(y, m, d) ==
    LET yy  == IF m <= 2 THEN y - 1 ELSE y
        era == yy \div 400
        yoe == yy - era * 400
        mp  == IF m > 2 THEN m - 3 ELSE m + 9
        doy == (153 * mp + 2) \div 5 + d - 1
        doe == yoe * 365 + yoe \div 4 - yoe \div 100 + doy
    IN  era * 146097 + doe - 719468

\* The <<year, month, day>> of a day number.
CivilFromDays(z) ==
    LET zz  == z + 719468
        era == zz \div 146097
        doe == zz - era * 146097
        yoe == (doe - doe \div 1460 + doe \div 36524 - doe \div 146096) \div 365
        doy == doe - (365 * yoe + yoe \div 4 - yoe \div 100)
        mp  == (5 * doy + 2) \div 153
        d   == doy - (153 * mp + 2) \div 5 + 1
        m   == IF mp < 10 THEN mp + 3 ELSE mp - 9
        y   == yoe + era * 400 + (IF m <= 2 THEN 1 ELSE 0)
    IN  <<y, m, d>>

\* datetime(y, m, d, h) in hours.
T(y, m, d, h) == DaysFromCivil(y, m, d) * 24 + h

\* timedelta(days = n) in hours.
Days(n) == n * 24

\* dt.strftime('%Y-%m') of an instant.
month_str(t) ==
    LET c == CivilFromDays(t \div 24) IN c[1] * 100 + c[2]

\* datetime.strptime(key, '%Y-%m'): the first day of the month, 00:00.
ParseMonth(key) == T(key \div 100, key % 100, 1, 0)

\* A missing value: None, NaN, an absent field.
Null == -1

\* The instant a raw record's timestamp denotes: pd.to_datetime(utc=True) and
\* tz_convert('UTC') subtract the offset from the wall-clock reading.
ToUtc(rec) == rec.wall - rec.off

\* timestamp.date(): the calendar date of the aware datetime as parsed, that
\* is of its wall-clock reading, before any conversion to UTC.
DateKey(rec) == rec.wall \div 24

\* The calendar date of the instant in UTC.
UtcDate(rec) == ToUtc(rec) \div 24

\* ------------------------------------------------------------ sequences

\* The sub-sequence of the elements s[i] with keep[i], in order (a boolean
\* row selection).
SelectRows(s, keep) ==
    LET RECURSIVE From(_)
        From(i) == IF i > Len(s) THEN <<>>
                   ELSE (IF keep[i] THEN <<s[i]>> ELSE <<>>) \o From(i + 1)
    IN  From(1)

\* A stable ascending sort of s by the keys key[i] (each element is put after
\* the elements whose key is not greater).
SortBy(s, key) ==
    LET RECURSIVE Insert(_, _)
        Insert(t, i) ==
            IF t = <<>> THEN <<i>>
            ELSE IF key[Head(t)] <= key[i] THEN <<Head(t)>> \o Insert(Tail(t), i)
                 ELSE <<i>> \o t
        RECURSIVE Upto(_)
        Upto(i) == IF i = 0 THEN <<>> ELSE Insert(Upto(i - 1), i)
        order == Upto(Len(s))
    IN  [k \in 1..Len(s) |-> s[order[k]]]

\* The sum of a sequence of numbers.
SumOf(nums) ==
    LET RECURSIVE From(_)
        From(i) == IF i > Len(nums) THEN 0 ELSE nums[i] + From(i + 1)
    IN  From(1)

\* ------------------------------------------------------------ gas provider

HasKey(daily, key) == \E i \in 1..Len(daily) : daily[i].key = key

RECURSIVE DailyFold(_, _)
\* The loop of fetch_anwb_gas_prices_batch over data['data']: a record is
\* stored under its date key when the key is not yet present and its
\* allInPrijs is not None; 'time' keeps the aware timestamp as parsed and
\* 'price' is price_cents / 100.0.
DailyFold(items, daily) ==
    IF items = <<>> THEN daily
    ELSE LET item == Head(items)
             key  == DateKey(item)
         IN  DailyFold(Tail(items),
                 IF ~HasKey(daily, key) /\ item.val # Null
                 THEN Append(daily, [key |-> key, wall |-> item.wall,
                                     off |-> item.off, price |-> item.val * 1000])
                 ELSE daily)

\* fetch_anwb_gas_prices_batch raises ValueError on a status other than 200
\* and on a payload without a 'data' field (requests.get raises on a network
\* error: status 0).
BatchRaises(resp) == resp.status # 200 \/ ~resp.hasData

\* The dict fetch_anwb_gas_prices_batch returns, as its entries in insertion
\* order.
fetch_anwb_gas_prices_batch(resp) == DailyFold(resp.items, <<>>)

RECURSIVE DictUpdate(_, _)
\* all_daily_prices.update(daily_prices): an entry whose key is present
\* replaces the stored value in place, a new key is appended.
DictUpdate(all, daily) ==
    IF daily = <<>> THEN all
    ELSE LET e == Head(daily)
         IN  DictUpdate(
                 IF HasKey(all, e.key)
                 THEN [i \in 1..Len(all) |-> IF all[i].key = e.key THEN e ELSE all[i]]
                 ELSE Append(all, e),
                 Tail(daily))

\* The DataFrame get_dynamic_gas_prices returns: the dict's values with
\* 'time' converted to UTC, sorted by time.
GasFrame(all) ==
    LET rows == [i \in 1..Len(all) |-> [time |-> ToUtc(all[i]), price |-> all[i].price]]
    IN  SortBy(rows, [i \in 1..Len(rows) |-> rows[i].time])

\* ------------------------------------------------------------ electricity provider

\* The payload shapes fetch_energyzero_prices finds a price list in.
RecognisedShapes == {"data.Prices", "Prices", "prices", "result", "list", "array"}

NoneFrame == [kind |-> "None", rows |-> <<>>]

Frame(rows) == [kind |-> "df", rows |-> rows]

IsEmptyFrame(df) == df.kind = "None" \/ df.rows = <<>>

Usable(item) == item.wall # Null /\ item.val # Null

\* fetch_energyzero_prices without the ValueError on an empty price list: an
\* empty frame is returned for it.
FetchWithoutEmptyCheck(resp) ==
    IF resp.status # 200 THEN NoneFrame
    ELSE LET prices == IF resp.shape \in RecognisedShapes THEN resp.items ELSE <<>>
         IN  Frame(SelectRows(prices, [i \in 1..Len(prices) |-> Usable(prices[i])]))

\* fetch_energyzero_prices: raise_for_status raises on a non-success status
\* (a network error is status 0), an empty or unrecognised price list raises
\* ValueError, and every exception is caught and turned into None; otherwise
\* the items with a timestamp and a price become the DataFrame, 'time' still
\* the provider's timestamp.
fetch_energyzero_prices(resp) ==
    IF resp.status # 200 THEN NoneFrame
    ELSE LET prices == IF resp.shape \in RecognisedShapes THEN resp.items ELSE <<>>
         IN  IF prices = <<>> THEN NoneFrame
             ELSE Frame(SelectRows(prices, [i \in 1..Len(prices) |-> Usable(prices[i])]))

\* get_dynamic_electricity_prices: a non-empty frame gets 'time' converted to
\* UTC and keeps the columns time and price; None and an empty frame are
\* returned as they are.
get_dynamic_electricity_prices(resp) ==
    LET df == fetch_energyzero_prices(resp)
    IN  IF df.kind = "df" /\ Len(df.rows) > 0
        THEN Frame([i \in 1..Len(df.rows) |->
                      [time |-> ToUtc(df.rows[i]), price |-> df.rows[i].val]])
        ELSE df

\* ------------------------------------------------------------ aggregation

FrameMonth(r) == month_str(r.time)

\* The keys of a groupby: the distinct months, ascending.
RECURSIVE SetToSortedSeq(_)
SetToSortedSeq(S) ==
    IF S = {} THEN <<>>
    ELSE LET m == CHOOSE x \in S : \A y \in S : x <= y
         IN  <<m>> \o SetToSortedSeq(S \ {m})

\* get_monthly_avg taking the first price of each month instead of the mean
\* (groupby(...).first()).
MonthlyFirst(rows) ==
    LET keys == SetToSortedSeq({FrameMonth(rows[i]) : i \in 1..Len(rows)})
    IN  [k \in 1..Len(keys) |->
            LET grp == SelectRows(rows, [i \in 1..Len(rows) |-> FrameMonth(rows[i]) = keys[k]])
            IN  [month |-> keys[k], sum |-> grp[1].price, n |-> 1]]

\* get_monthly_avg: one row per month key of the frame, ascending, with the
\* mean of the prices of that month, kept exact as sum and count.
get_monthly_avg(rows) ==
    LET keys == SetToSortedSeq({FrameMonth(rows[i]) : i \in 1..Len(rows)})
    IN  [k \in 1..Len(keys) |->
            LET grp == SelectRows(rows, [i \in 1..Len(rows) |-> FrameMonth(rows[i]) = keys[k]])
            IN  [month |-> keys[k], sum |-> SumOf([i \in 1..Len(grp) |-> grp[i].price]),
                 n |-> Len(grp)]]

\* round(sum / n, 5) in units of 1e-5: to the nearest whole number, a tie to
\* the even one.
RoundHalfEven(sum, n) ==
    LET q == sum \div n
        r == sum % n
    IN  IF 2 * r < n THEN q
        ELSE IF 2 * r > n THEN q + 1
        ELSE IF q % 2 = 0 THEN q ELSE q + 1

\* build_monthly_csv: month and total_price = round(price, 5).
build_monthly_csv(monthly) ==
    [i \in 1..Len(monthly) |->
        [month |-> monthly[i].month,
         total_price |-> RoundHalfEven(monthly[i].sum, monthly[i].n)]]

\* ------------------------------------------------------------ month labels

\* A value of the DATE column: a 'YYYY-MM' string, or a label such as
\* 'apr-25' (three letters, '-', two digits).
Key(ym) == [fmt |-> "Y-m", ym |-> ym]

Label(b, yy) == [fmt |-> "b-y", b |-> b, yy |-> yy]

\* strftime('%b').lower() of the months 1..12.
MonthAbbr ==
    <<"jan", "feb", "mar", "apr", "may", "jun", "jul", "aug", "sep", "oct", "nov", "dec">>

\* strptime(d, '%Y-%m') accepts the string: its month is one of 01..12.
ParsesAsMonth(d) == d.fmt = "Y-m" /\ (d.ym % 100) \in 1..12

\* The lambda of lines 241-245: a 'YYYY-MM' string is parsed and printed as
\* '%b-%y' in lower case (the year keeps its last two digits); any other
\* value stays as it is.
Relabel(d) ==
    IF d.fmt = "Y-m" THEN Label(MonthAbbr[d.ym % 100], (d.ym \div 100) % 100) ELSE d

\* strptime(label, '%b-%y'): the month with that abbreviation, and the year
\* 19yy for yy from 69 on, 20yy below.
LabelDate(d) ==
    LET m == CHOOSE i \in 1..12 : MonthAbbr[i] = d.b
        y == IF d.yy >= 69 THEN 1900 + d.yy ELSE 2000 + d.yy
    IN  T(y, m, 1, 0)

\* month_gt_mar25 with >= for >.
month_ge_mar25(d) ==
    IF d.fmt = "b-y" THEN LabelDate(d) >= T(2025, 3, 1, 0)
    ELSE IF ParsesAsMonth(d) THEN ParseMonth(d.ym) >= T(2025, 3, 1, 0)
    ELSE FALSE

\* month_gt_mar25: a label is parsed with '%b-%y', a 'YYYY-MM' string with
\* '%Y-%m'; the answer is whether the date is after 2025-03-01, and False
\* when the string does not parse.
month_gt_mar25(d) ==
    IF d.fmt = "b-y" THEN LabelDate(d) > T(2025, 3, 1, 0)
    ELSE IF ParsesAsMonth(d) THEN ParseMonth(d.ym) > T(2025, 3, 1, 0)
    ELSE FALSE

\* ------------------------------------------------------------ price breakdown

\* calculate_energy_tax_rate: the rate of the timestamp's year, in 1e-5 EUR;
\* a year that is not in the table gets the rate of the last year in it.
calculate_energy_tax_rate(year) ==
    IF year = 2023 THEN 12599
    ELSE IF year = 2024 THEN 10880
    ELSE 10154

\* The breakdown without the VAT in the total.
EnrichWithoutVat(point) ==
    LET base == point.price * 100
        tax  == calculate_energy_tax_rate(CivilFromDays(point.time \div 24)[1]) * 100
        proc == 400000
    IN  [base_price |-> base, energy_tax |-> tax, procurement_costs |-> proc,
         vat |-> 21 * ((base + tax + proc) \div 100), total_price |-> base + tax + proc]

\* Lines 269-283 of fetch_entsoe_prices for one price point, in 1e-7 EUR: the
\* base price, the energy tax of the year of its timestamp (in UTC, as
\* analyze_data_completeness left the column), procurement costs of 0.04, VAT
\* of 21% on the three, and the total of the four.
Enrich(point) ==
    LET base == point.price * 100
        tax  == calculate_energy_tax_rate(CivilFromDays(point.time \div 24)[1]) * 100
        proc == 400000
        vat  == 21 * ((base + tax + proc) \div 100)
    IN  [base_price |-> base, energy_tax |-> tax, procurement_costs |-> proc,
         vat |-> vat, total_price |-> base + tax + proc + vat]

\* ------------------------------------------------------------ merge

\* FilterBefore with the comparison turned round: the rows after the cutoff.
FilterAfter(existing, cutoff) ==
    SelectRows(existing, [i \in 1..Len(existing) |-> existing[i].month > cutoff])

\* existing[existing['month'] < cutoff_month]
FilterBefore(existing, cutoff) ==
    SelectRows(existing, [i \in 1..Len(existing) |-> existing[i].month < cutoff])

\* drop_duplicates left out: every row stays.
KeepAllRows(rows) == rows

\* drop_duplicates(subset='month', keep='last'): a row stays when no later row
\* has its month.
drop_duplicates(rows) ==
    LET idx == {i \in 1..Len(rows) : \A j \in (i + 1)..Len(rows) : rows[j].month # rows[i].month}
        RECURSIVE Pick(_)
        Pick(i) == IF i > Len(rows) THEN <<>>
                   ELSE IF i \in idx THEN <<rows[i]>> \o Pick(i + 1) ELSE Pick(i + 1)
    IN  Pick(1)

\* sort_values('month').reset_index(drop=True)
sort_values(rows) == SortBy(rows, [i \in 1..Len(rows) |-> rows[i].month])

\* The else branch of main for one commodity: the rows of the existing frame
\* before the cutoff (when the frame is not empty), then the new rows, the
\* last row of a month kept, sorted by month.
Merge(existing, new, cutoff) ==
    LET kept == IF existing # <<>> THEN FilterBefore(existing, cutoff) ELSE existing
    IN  sort_values(drop_duplicates(kept \o new))

\* ------------------------------------------------------------ CBS rates

\* The sum of a tariff and its energy tax when the item has both, else absent.
CbsTotal(base, tax) == IF base # Null /\ tax # Null THEN base + tax ELSE Null

\* get_cbs_rates on the items of the response: an item of VAT category
\* A048944 with a monthly period that has electricity or gas data becomes an
\* entry with its 'YYYY-MM' period and the totals it has data for; the
\* entries are sorted by period (list.sort is stable).
get_cbs_rates(items) ==
    LET kept  == SelectRows(items, [i \in 1..Len(items) |->
                     /\ items[i].btw = "A048944" /\ items[i].monthly
                     /\ (CbsTotal(items[i].e_base, items[i].e_tax) # Null
                         \/ CbsTotal(items[i].g_base, items[i].g_tax) # Null)])
        rates == [i \in 1..Len(kept) |->
                     [period |-> kept[i].period,
                      total |-> CbsTotal(kept[i].e_base, kept[i].e_tax),
                      gas_total |-> CbsTotal(kept[i].g_base, kept[i].g_tax)]]
    IN  SortBy(rates, [i \in 1..Len(rates) |-> rates[i].period])

\* ------------------------------------------------------------ comparison table

\* ORIG_ELEC: <<month, year, CBS stroom, ANWB stroom>> of jan-21 .. mar-25, prices
\* in 1e-5 EUR.
ORIG_ELEC ==
    << <<"jan", 21, 22000, 22000>>, <<"feb", 21, 22000, 22000>>,
       <<"mar", 21, 23000, 23000>>, <<"apr", 21, 23000, 23000>>,
       <<"may", 21, 23000, 23000>>, <<"jun", 21, 23000, 26000>>,
       <<"jul", 21, 24000, 27000>>, <<"aug", 21, 24000, 27000>>,
       <<"sep", 21, 26000, 33000>>, <<"oct", 21, 28000, 36000>>,
       <<"nov", 21, 33000, 39000>>, <<"dec", 21, 37000, 45000>>,
       <<"jan", 22, 40000, 33000>>, <<"feb", 22, 38000, 30000>>,
       <<"mar", 22, 56000, 41000>>, <<"apr", 22, 52000, 33000>>,
       <<"may", 22, 44000, 32000>>, <<"jun", 22, 42000, 35000>>,
       <<"jul", 22, 49000, 41000>>, <<"aug", 22, 58000, 54000>>,
       <<"sep", 22, 72000, 43000>>, <<"oct", 22, 73000, 25000>>,
       <<"nov", 22, 60000, 29000>>, <<"dec", 22, 59000, 37000>>,
       <<"jan", 23, 67000, 32000>>, <<"feb", 23, 63000, 33000>>,
       <<"mar", 23, 58000, 30000>>, <<"apr", 23, 45000, 29000>>,
       <<"may", 23, 40000, 26000>>, <<"jun", 23, 39000, 28000>>,
       <<"jul", 23, 35000, 26000>>, <<"aug", 23, 35000, 28000>>,
       <<"sep", 23, 35000, 29000>>, <<"oct", 23, 35000, 28000>>,
       <<"nov", 23, 35000, 29000>>, <<"dec", 23, 35000, 26000>>,
       <<"jan", 24, 33000, 30000>>, <<"feb", 24, 33000, 25000>>,
       <<"mar", 24, 33000, 26000>>, <<"apr", 24, 31000, 25000>>,
       <<"may", 24, 30000, 27000>>, <<"jun", 24, 30000, 26000>>,
       <<"jul", 24, 29000, 26000>>, <<"aug", 24, 28000, 27000>>,
       <<"sep", 24, 28000, 27000>>, <<"oct", 24, 29000, 29000>>,
       <<"nov", 24, 29000, 32000>>, <<"dec", 24, 29000, 31000>>,
       <<"jan", 25, 29000, 31000>>, <<"feb", 25, 28000, 32000>>,
       <<"mar", 25, 28000, 28000>> >>

\* ORIG_GAS: <<month, year, CBS gas, ANWB gas>> of jan-21 .. mar-25.
ORIG_GAS ==
    << <<"jan", 21, 80000, 82000>>, <<"feb", 21, 80000, 80000>>,
       <<"mar", 21, 81000, 79000>>, <<"apr", 21, 81000, 82000>>,
       <<"may", 21, 81000, 88000>>, <<"jun", 21, 83000, 92000>>,
       <<"jul", 21, 87000, 101000>>, <<"aug", 21, 88000, 110000>>,
       <<"sep", 21, 93000, 131000>>, <<"oct", 21, 105000, 164000>>,
       <<"nov", 21, 127000, 153000>>, <<"dec", 21, 142000, 192000>>,
       <<"jan", 22, 174000, 160000>>, <<"feb", 22, 167000, 156000>>,
       <<"mar", 22, 239000, 215000>>, <<"apr", 22, 223000, 181000>>,
       <<"may", 22, 197000, 166000>>, <<"jun", 22, 176000, 182000>>,
       <<"jul", 22, 208000, 219000>>, <<"aug", 22, 260000, 284000>>,
       <<"sep", 22, 326000, 240000>>, <<"oct", 22, 327000, 134000>>,
       <<"nov", 22, 231000, 149000>>, <<"dec", 22, 231000, 179000>>,
       <<"jan", 23, 259000, 144000>>, <<"feb", 23, 244000, 132000>>,
       <<"mar", 23, 231000, 121000>>, <<"apr", 23, 178000, 119000>>,
       <<"may", 23, 154000, 105000>>, <<"jun", 23, 148000, 105000>>,
       <<"jul", 23, 129000, 103000>>, <<"aug", 23, 126000, 107000>>,
       <<"sep", 23, 126000, 111000>>, <<"oct", 23, 124000, 119000>>,
       <<"nov", 23, 127000, 118000>>, <<"dec", 23, 129000, 109000>>,
       <<"jan", 24, 140000, 112000>>, <<"feb", 24, 140000, 107000>>,
       <<"mar", 24, 138000, 107000>>, <<"apr", 24, 134000, 100000>>,
       <<"may", 24, 130000, 111000>>, <<"jun", 24, 129000, 116000>>,
       <<"jul", 24, 129000, 115000>>, <<"aug", 24, 128000, 120000>>,
       <<"sep", 24, 129000, 119000>>, <<"oct", 24, 132000, 125000>>,
       <<"nov", 24, 132000, 128000>>, <<"dec", 24, 133000, 129000>>,
       <<"jan", 25, 133000, 133000>>, <<"feb", 25, 134000, 135000>>,
       <<"mar", 25, 135000, 125000>> >>

\* A row of the comparison table.
Row(date, cs, as, cg, ag) ==
    [DATE |-> date, cbs_stroom |-> cs, anwb_stroom |-> as, cbs_gas |-> cg, anwb_gas |-> ag]

\* Line 252, first frame: ORIG_ELEC joined with the ORIG_GAS row of the same
\* DATE, the first five columns.
Historical ==
    [i \in 1..Len(ORIG_ELEC) |->
        LET e == ORIG_ELEC[i]
            g == ORIG_GAS[CHOOSE j \in 1..Len(ORIG_GAS) :
                              ORIG_GAS[j][1] = e[1] /\ ORIG_GAS[j][2] = e[2]]
        IN  Row(Label(e[1], e[2]), e[3], e[4], g[3], g[4])]

\* cbs_df: one row per entry of cbs_rates, an absent total as a missing value.
CbsFrame(rates) ==
    [i \in 1..Len(rates) |->
        Row(Key(rates[i].period), rates[i].total, Null, rates[i].gas_total, Null)]

\* left.merge(right, on='DATE', how='outer') with right a monthly dataset
\* renamed to DATE and col: per DATE in ascending order, every left row of
\* the DATE with the value of every right row of the DATE; a DATE of one side
\* only gets a row with the other side's columns missing.
MergeOuter(left, right, col) ==
    LET keys == SetToSortedSeq({left[i].DATE.ym : i \in 1..Len(left)}
                               \cup {right[j].month : j \in 1..Len(right)})
        RowsOf(k) ==
            LET L  == SelectRows(left, [i \in 1..Len(left) |-> left[i].DATE.ym = k])
                R  == SelectRows(right, [j \in 1..Len(right) |-> right[j].month = k])
                LL == IF L = <<>> THEN <<Row(Key(k), Null, Null, Null, Null)>> ELSE L
            IN  IF R = <<>> THEN LL
                ELSE [n \in 1..(Len(LL) * Len(R)) |->
                         [LL[((n - 1) \div Len(R)) + 1] EXCEPT
                             ![col] = R[((n - 1) % Len(R)) + 1].total_price]]
        RECURSIVE From(_)
        From(x) == IF x > Len(keys) THEN <<>> ELSE RowsOf(keys[x]) \o From(x + 1)
    IN  From(1)

\* pipeline.sort_values('DATE').reset_index(drop=True)
sort_by_date(rows) == SortBy(rows, [i \in 1..Len(rows) |-> rows[i].DATE.ym])

\* Lines 241-245: every DATE relabelled.
RelabelAll(rows) == [i \in 1..Len(rows) |-> [rows[i] EXCEPT !.DATE = Relabel(@)]]

\* Line 246: the rows whose DATE passes month_gt_mar25.
FilterLive(rows) == SelectRows(rows, [i \in 1..Len(rows) |-> month_gt_mar25(rows[i].DATE)])

\* Is a row complete: none of its four values missing.
Complete(r) ==
    r.cbs_stroom # Null /\ r.anwb_stroom # Null /\ r.cbs_gas # Null /\ r.anwb_gas # Null

\* dropna left out.
KeepIncomplete(rows) == rows

\* Line 249: dropna on the four value columns.
dropna(rows) == SelectRows(rows, [i \in 1..Len(rows) |-> Complete(rows[i])])

\* '%.4f' of a value in 1e-5 EUR, in 1e-4 EUR (a value half way between two
\* is taken to the even one); a missing value stays missing.
Format4(v) == IF v = Null THEN Null ELSE RoundHalfEven(v, 10)

\* compare.to_csv(float_format='%.4f'): the rows as the file holds them.
to_csv(rows) ==
    [i \in 1..Len(rows) |->
        Row(rows[i].DATE, Format4(rows[i].cbs_stroom), Format4(rows[i].anwb_stroom),
            Format4(rows[i].cbs_gas), Format4(rows[i].anwb_gas))]

\* A hash that only depends on the number of rows of the file.
HashOfLength(file) == IF ~file.exists THEN <<"None">> ELSE <<"sha256", Len(file.rows)>>

\* file_hash: None for a file that does not exist, else the SHA-256 of its
\* bytes, which stands for the bytes themselves.
file_hash(file) == IF ~file.exists THEN <<"None">> ELSE <<"sha256", file.rows>>

\* ------------------------------------------------------------ the providers' series

\* The series a provider holds, in the order it returns records (ascending
\* instant).  One record per situation the pipeline has to cope with.
Timeline ==
    << [wall |-> T(2021, 1, 31, 3), off |-> 0, val |-> Null],   \* no price
       [wall |-> T(2021, 1, 31, 6), off |-> 0, val |-> 100],
       [wall |-> T(2021, 1, 31, 9), off |-> 0, val |-> 300],    \* same day again
       [wall |-> T(2021, 2, 1, 0),  off |-> 1, val |-> 700],    \* 2021-01-31T23:00Z
       [wall |-> T(2021, 2, 5, 6),  off |-> 0, val |-> 200],
       [wall |-> T(2021, 2, 20, 6), off |-> 0, val |-> 400],
       [wall |-> T(2021, 6, 30, 0), off |-> 1, val |-> 500],    \* 2021-06-29T23:00Z
       [wall |-> T(2021, 6, 30, 1), off |-> 1, val |-> 900] >>  \* 2021-06-30T00:00Z

\* The most records one provider's series holds.
MaxRecords == 3

\* The sub-sequences of Timeline of at most MaxRecords records.
Series ==
    LET Pick(I) == SelectRows(Timeline, [i \in 1..Len(Timeline) |-> i \in I])
    IN  {Pick(I) : I \in {J \in SUBSET (1..Len(Timeline)) : Cardinality(J) <= MaxRecords}}

\* The series of the provider that is not varied: a record in January, two in
\* February (the second after the first run's instant) and one in June.
Baseline == <<Timeline[2], Timeline[5], Timeline[6], Timeline[8]>>

\* An item of the CBS table of VAT category A048944 for a month.
CbsItem(period, e_base, e_tax, g_base, g_tax) ==
    [btw |-> "A048944", monthly |-> TRUE, period |-> period,
     e_base |-> e_base, e_tax |-> e_tax, g_base |-> g_base, g_tax |-> g_tax]

\* The CBS answer while the pipeline runs in 2021.
CbsEpoch == <<CbsItem(202101, 9000, 13000, 30000, 50000),
              CbsItem(202102, 9100, 13000, 30500, 50000)>>

\* The instants datetime.now() returns in the runs.
NowChoices == {T(2021, 2, 10, 12), T(2021, 6, 30, 12)}

\* The most runs of main().
MaxRuns == 2

\* A provider answers a request for the window from a to b with its records
\* in the window.  The request names the window by naive datetimes printed
\* with a literal 'Z'; whether the provider compares them with the instant of
\* a record or with the wall-clock reading of its timestamp is the
\* provider's affair, and fixed per provider deployment (rangeBy).
RangeKey(rec, by) == IF by = "instant" THEN ToUtc(rec) ELSE rec.wall

\* The records served for [a, b) (gas, endDate ...000Z).
ServeUntil(series, a, b, by) ==
    SelectRows(series, [i \in 1..Len(series) |->
                           a <= RangeKey(series[i], by) /\ RangeKey(series[i], by) < b])

\* The records served for [a, b] (electricity, tillDate ...999Z).
ServeThrough(series, a, b, by) ==
    SelectRows(series, [i \in 1..Len(series) |->
                           a <= RangeKey(series[i], by) /\ RangeKey(series[i], by) <= b])

\* ------------------------------------------------------------ state

VARIABLES
    upstream,      \* [elec, gas]: the series each provider holds
    rangeBy,       \* how the providers match a request window
    persisted,     \* [elec, gas]: the monthly CSV file, [exists, rows]
    now,           \* datetime.now() of the current run
    runs,          \* runs of main() started so far
    pc,            \* position in main(): idle, elec, gas, compare
    existing,      \* [elec, gas]: load_existing_data, then the filtered frame
    start,         \* [elec, gas]: elec_start, gas_start
    elec_resp,     \* the electricity provider's answer: [status, shape]
    df,            \* [elec, gas]: elec_df, gas_df
    new,           \* [elec, gas]: new_elec, new_gas
    out,           \* [elec, gas]: elec_out, gas_out
    current_start, \* get_dynamic_gas_prices: start of the next batch
    all_daily_prices, \* get_dynamic_gas_prices: the accumulator
    served,        \* history: the answer to each gas batch of this run
    before,        \* history: the files as the run found them
    merged,        \* history: [elec, gas]: the run took the merge branch
    prev,          \* history: the previous completed run
    clock,         \* the instants datetime.now() may return in a run
    cbs_api,       \* the item lists the CBS API may answer with
    cbs_rates,     \* cbs_rates of the run
    compare_file,  \* compare_prices.csv, [exists, rows]
    log,           \* fetch_prices.log: the lines of log_run
    compare_before, \* history: compare_prices.csv before the last write
    call,          \* a function applied on its own: [fn, arg]
    ret            \* what the call returned

\* The variables of a function applied on its own.
fnVars == <<call, ret>>

\* The variables of the comparison step.
cmpVars == <<cbs_rates, compare_file, log, compare_before>>

vars == <<upstream, rangeBy, persisted, now, runs, pc, existing, start, elec_resp,
          df, new, out, current_start, all_daily_prices, served, before, merged, prev,
          clock, cbs_api, cbs_rates, compare_file, log, compare_before, call, ret>>

Commodities == {"elec", "gas"}

NoFile == [exists |-> FALSE, rows |-> <<>>]

Both(v) == [c \in Commodities |-> v]

NoResp == [status |-> 0, shape |-> "none"]

NoPrev == [valid |-> FALSE, now |-> 0, clean |-> FALSE, wrote |-> FALSE, cbs |-> <<>>,
           rows |-> Both(<<>>)]

NoCall == [fn |-> "none"]

NoRet == [fn |-> "none"]

\* The run-local variables between runs.
Locals(e, s, r, d, n, o, cs, a, sv, m) ==
    /\ existing' = e /\ start' = s /\ elec_resp' = r /\ df' = d /\ new' = n
    /\ out' = o /\ current_start' = cs /\ all_daily_prices' = a /\ served' = sv
    /\ merged' = m

ResetLocals ==
    Locals(Both(<<>>), Both(0), NoResp, Both(NoneFrame), Both(<<>>), Both(<<>>),
           0, <<>>, <<>>, Both(FALSE))

\* No run of main() has begun.
NoRun ==
    /\ now = 0
    /\ runs = 0
    /\ pc = "idle"
    /\ existing = Both(<<>>) /\ start = Both(0) /\ elec_resp = NoResp
    /\ df = Both(NoneFrame) /\ new = Both(<<>>) /\ out = Both(<<>>)
    /\ current_start = 0 /\ all_daily_prices = <<>> /\ served = <<>>
    /\ before = Both(NoFile)
    /\ merged = Both(FALSE)
    /\ prev = NoPrev
    /\ cbs_rates = <<>>
    /\ compare_file = NoFile /\ log = <<>> /\ compare_before = NoFile

Init ==
    /\ \E c \in Commodities, s \in Series :
           upstream = [d \in Commodities |-> IF d = c THEN s ELSE Baseline]
    /\ rangeBy \in {"instant", "wall"}
    /\ persisted = Both(NoFile)
    /\ clock = NowChoices /\ cbs_api = {CbsEpoch}
    /\ NoRun
    /\ call = NoCall /\ ret = NoRet

\* ------------------------------------------------------------ main()

\* The frame read from a file has a 'month' column (the columns of a frame
\* are the fields of its rows; a frame without rows is taken to have it).
HasMonthColumn(rows) == rows = <<>> \/ "month" \in DOMAIN rows[1]

\* get_last_known_month reading the first row (iloc[0]).
FirstKnownMonth(file) ==
    IF ~file.exists THEN Null
    ELSE IF ~HasMonthColumn(file.rows) \/ file.rows = <<>> THEN Null
    ELSE IF ~ParsesAsMonth(Key(file.rows[1].month)) THEN Null
    ELSE ParseMonth(file.rows[1].month)

\* get_last_known_month: None when the file does not exist, has no 'month'
\* column or no rows, or when strptime rejects the month of its last row;
\* else that month as a datetime.
get_last_known_month(file) ==
    IF ~file.exists THEN Null
    ELSE IF ~HasMonthColumn(file.rows) \/ file.rows = <<>> THEN Null
    ELSE IF ~ParsesAsMonth(Key(file.rows[Len(file.rows)].month)) THEN Null
    ELSE ParseMonth(file.rows[Len(file.rows)].month)

\* load_existing_data taking its except branch on every file: an empty frame.
LoadNothing(file) == <<>>

\* load_existing_data: the rows of the file, an empty frame when it does not
\* exist.
load_existing_data(file) == IF ~file.exists THEN <<>> ELSE file.rows

\* The start date main derives from the last known month: the first day of
\* that month, or 2021-01-01.
StartDate(last_month) == IF last_month # Null THEN last_month ELSE T(2021, 1, 1, 0)

\* Branch without the test for None or an empty frame: always the merge.
BranchAlwaysMerges(frame, exist, startDate) ==
    LET fresh  == build_monthly_csv(get_monthly_avg(frame.rows))
        cutoff == month_str(startDate)
        kept   == IF exist # <<>> THEN FilterBefore(exist, cutoff) ELSE exist
    IN  <<fresh, kept, Merge(exist, fresh, cutoff), TRUE>>

\* One commodity's branch of main after its fetch: the existing frame when
\* the fetch gave None or nothing, else the merge of the fresh aggregates.
\* <<new, existing as reassigned, out, merged>>.
Branch(frame, exist, startDate) ==
    IF IsEmptyFrame(frame) THEN <<(<<>>), exist, exist, FALSE>>
    ELSE LET fresh  == build_monthly_csv(get_monthly_avg(frame.rows))
             cutoff == month_str(startDate)
             kept   == IF exist # <<>> THEN FilterBefore(exist, cutoff) ELSE exist
         IN  <<fresh, kept, Merge(exist, fresh, cutoff), TRUE>>

\* The merge branch raises: the fetch gave rows and the existing frame has
\* rows but no 'month' column, so existing['month'] is a KeyError.
MergeRaises(frame, exist) == ~IsEmptyFrame(frame) /\ exist # <<>> /\ ~HasMonthColumn(exist)

\* get_cbs_rates() raises (raise_for_status): main ends before it read or
\* wrote a file.
CbsRaises ==
    /\ pc = "idle" /\ runs < MaxRuns
    /\ \E t \in clock : t >= now /\ now' = t
    /\ runs' = runs + 1
    /\ UNCHANGED <<upstream, rangeBy, persisted, pc, existing, start, elec_resp, df,
                   new, out, current_start, all_daily_prices, served, before, merged,
                   prev>>
    /\ UNCHANGED fnVars
    /\ UNCHANGED <<clock, cbs_api, cmpVars>>

\* Lines 150-180: the CBS rates arrive, the last known months are read, the
\* existing data loaded and the start dates set.
StartRun ==
    /\ pc = "idle" /\ runs < MaxRuns
    /\ \E t \in clock : t >= now /\ now' = t
    /\ \E items \in cbs_api : cbs_rates' = get_cbs_rates(items)
    /\ runs' = runs + 1
    /\ before' = persisted
    /\ existing' = [c \in Commodities |-> load_existing_data(persisted[c])]
    /\ start' = [c \in Commodities |-> StartDate(get_last_known_month(persisted[c]))]
    /\ pc' = "elec"
    /\ UNCHANGED <<upstream, rangeBy, persisted, elec_resp, df, new, out,
                   current_start, all_daily_prices, served, merged, prev>>
    /\ UNCHANGED fnVars
    /\ UNCHANGED <<clock, cbs_api, compare_file, log, compare_before>>

\* What the electricity provider answers: a status (0: the call failed on
\* the network) and a payload shape.
ElecAnswers ==
    {[status |-> 200, shape |-> "data.Prices"], [status |-> 200, shape |-> "unknown"],
     [status |-> 500, shape |-> "none"], [status |-> 0, shape |-> "none"]}

\* Lines 182-197: the electricity fetch from elec_start to now + 1 day and
\* its branch; then get_dynamic_gas_prices begins (lines 183-193 of
\* fetch_dynamic_gas.py).  When the branch raises, main ends.
ElecStep ==
    /\ pc = "elec"
    /\ \E a \in ElecAnswers :
         \E resp \in {[status |-> a.status, shape |-> a.shape,
                       items |-> ServeThrough(upstream.elec, start.elec,
                                              now + Days(1), rangeBy)]} :
         \E frame \in {get_dynamic_electricity_prices(resp)} :
             IF MergeRaises(frame, existing.elec)
             THEN /\ ResetLocals
                  /\ pc' = "idle"
             ELSE \E b \in {Branch(frame, existing.elec, start.elec)} :
                  /\ elec_resp' = a
                  /\ df' = [df EXCEPT !.elec = frame]
                  /\ new' = [new EXCEPT !.elec = b[1]]
                  /\ existing' = [existing EXCEPT !.elec = b[2]]
                  /\ out' = [out EXCEPT !.elec = b[3]]
                  /\ merged' = [merged EXCEPT !.elec = b[4]]
                  /\ current_start' = start.gas
                  /\ all_daily_prices' = <<>>
                  /\ served' = <<>>
                  /\ pc' = "gas"
                  /\ UNCHANGED start
    /\ UNCHANGED <<upstream, rangeBy, persisted, now, runs, before, prev>>
    /\ UNCHANGED fnVars
    /\ UNCHANGED <<clock, cbs_api, cmpVars>>

\* The batch_days of get_dynamic_gas_prices.
batch_days == 90

\* current_end without the min: always batch_days further.
NoMinEnd == current_start + Days(batch_days)

\* min(current_start + timedelta(days=batch_days), end_date)
CurrentEnd == IF current_start + Days(batch_days) < now THEN current_start + Days(batch_days)
              ELSE now

\* What the gas provider answers to a batch: a status and whether the payload
\* has a 'data' field.
GasAnswers ==
    {[status |-> 200, hasData |-> TRUE], [status |-> 200, hasData |-> FALSE],
     [status |-> 500, hasData |-> FALSE]}

\* One pass of the while loop of get_dynamic_gas_prices: the batch is fetched
\* and its dict merged into the accumulator, or the exception is printed; the
\* window moves on either way.
GasBatch ==
    /\ pc = "gas" /\ current_start < now
    /\ \E a \in GasAnswers :
         \E resp \in {[status |-> a.status, hasData |-> a.hasData,
                      items |-> IF a.status = 200 /\ a.hasData
                                THEN ServeUntil(upstream.gas, current_start, CurrentEnd, rangeBy)
                                ELSE <<>>]} :
             /\ all_daily_prices' =
                    IF BatchRaises(resp) THEN all_daily_prices
                    ELSE DictUpdate(all_daily_prices, fetch_anwb_gas_prices_batch(resp))
             /\ served' = Append(served, [ok |-> ~BatchRaises(resp), items |-> resp.items,
                                          from |-> current_start, to |-> CurrentEnd])
    /\ current_start' = CurrentEnd
    /\ UNCHANGED <<upstream, rangeBy, persisted, now, runs, pc, existing, start,
                   elec_resp, df, new, out, before, merged, prev>>
    /\ UNCHANGED fnVars
    /\ UNCHANGED <<clock, cbs_api, cmpVars>>

\* The loop of get_dynamic_gas_prices ends and the frame is built; lines
\* 202-218 of main: the gas branch, then both CSV files are written.  When
\* the branch raises, main ends before it wrote a file.
GasDone ==
    /\ pc = "gas" /\ ~(current_start < now)
    /\ \E frame \in {Frame(GasFrame(all_daily_prices))} :
           IF MergeRaises(frame, existing.gas)
           THEN /\ ResetLocals
                /\ pc' = "idle"
                /\ UNCHANGED persisted
           ELSE \E b \in {Branch(frame, existing.gas, start.gas)} :
                /\ df' = [df EXCEPT !.gas = frame]
                /\ new' = [new EXCEPT !.gas = b[1]]
                /\ existing' = [existing EXCEPT !.gas = b[2]]
                /\ out' = [out EXCEPT !.gas = b[3]]
                /\ merged' = [merged EXCEPT !.gas = b[4]]
                /\ persisted' = [elec |-> [exists |-> TRUE, rows |-> out.elec],
                                 gas  |-> [exists |-> TRUE, rows |-> b[3]]]
                /\ pc' = "compare"
                /\ UNCHANGED <<start, elec_resp, current_start, all_daily_prices, served>>
    /\ UNCHANGED <<upstream, rangeBy, now, runs, before, prev>>
    /\ UNCHANGED fnVars
    /\ UNCHANGED <<clock, cbs_api, cmpVars>>

\* No fetch of the run failed: the electricity answer was a recognised 200
\* and no gas batch raised.
CleanRun ==
    /\ elec_resp.status = 200 /\ elec_resp.shape \in RecognisedShapes
    /\ \A i \in 1..Len(served) : served[i].ok

\* The comparison step raises: the merge on DATE finds no such column in a
\* cbs_df built from no entries or in a dataset that has rows but no 'month'
\* column to rename (KeyError), and strptime in the relabelling rejects a
\* 'YYYY-MM' string whose month is not 01..12 (ValueError).
CompareRaises ==
    \/ cbs_rates = <<>>
    \/ \E c \in Commodities : ~HasMonthColumn(out[c])
    \/ \E c \in Commodities : \E i \in 1..Len(out[c]) : ~ParsesAsMonth(Key(out[c][i].month))

\* Lines 221-260: the comparison table is built from cbs_rates, elec_out and
\* gas_out below the historical rows and written with four decimals, the
\* hash of the file before and after decides 'changed', and the run is
\* logged.  The merge on DATE raises KeyError when cbs_rates is empty (cbs_df
\* has no columns) and the relabelling raises on a month that does not
\* parse: main ends there, after it wrote the monthly files.
Compare ==
    /\ pc = "compare"
    /\ prev' = [valid |-> TRUE, now |-> now, clean |-> CleanRun, wrote |-> ~CompareRaises,
                cbs |-> cbs_rates,
                rows |-> [c \in Commodities |-> persisted[c].rows]]
    /\ IF CompareRaises THEN UNCHANGED <<compare_file, log, compare_before>>
       ELSE \E cbs_df \in {CbsFrame(cbs_rates)} :
            \E with_elec \in {MergeOuter(cbs_df, out.elec, "anwb_stroom")} :
            \E merged_all \in {MergeOuter(with_elec, out.gas, "anwb_gas")} :
            \E sorted \in {sort_by_date(merged_all)} :
            \E pipeline \in {dropna(FilterLive(RelabelAll(sorted)))} :
            \E compare \in {Historical \o pipeline} :
            \E written \in {[exists |-> TRUE, rows |-> to_csv(compare)]} :
                /\ compare_before' = compare_file
                /\ compare_file' = written
                /\ log' = Append(log, [n |-> Len(compare),
                                        changed |-> file_hash(compare_file) # file_hash(written)])
    /\ pc' = "idle"
    /\ ResetLocals
    /\ UNCHANGED <<upstream, rangeBy, persisted, now, runs, before, clock, cbs_api, cbs_rates>>
    /\ UNCHANGED fnVars

Next == CbsRaises \/ StartRun \/ ElecStep \/ GasBatch \/ GasDone \/ Compare

Spec == Init /\ [][Next]_vars

\* ------------------------------------------------------------ functions on their own

\* The variables of main().
mainVars == <<upstream, rangeBy, persisted, now, runs, pc, existing, start, elec_resp,
              df, new, out, current_start, all_daily_prices, served, before, merged, prev,
              clock, cbs_api, cbs_rates, compare_file, log, compare_before>>

\* The last year of the month keys tried.
MaxYear == 2029

\* The 'YYYY-MM' keys of the pipeline's range: every month from 2021-01 on.
PipelineKeys == {y * 100 + m : y \in 2021..MaxYear, m \in 1..12}

\* Price points for the breakdown: instants on both sides of the turns of
\* the years of the tax table and prices below, at and above zero.
PricePoints ==
    [time : {T(2022, 12, 31, 23), T(2023, 1, 1, 0), T(2023, 12, 31, 23), T(2024, 1, 1, 0),
             T(2024, 12, 31, 23), T(2025, 1, 1, 0), T(2026, 6, 1, 12), T(2027, 1, 1, 0)},
     price : {-14154, -5000, 0, 8123, 30000}]

\* Frames for the aggregation: the provider series without records that
\* lack a price, with their UTC instants.
Frames ==
    {[i \in 1..Len(s) |-> [time |-> ToUtc(s[i]), price |-> s[i].val * 1000]] :
        s \in {q \in Series : q # <<>> /\ \A i \in 1..Len(q) : q[i].val # Null}}

Calls ==
    {[fn |-> "relabel", arg |-> Key(k)] : k \in PipelineKeys}
    \cup {[fn |-> "enrich", arg |-> pt] : pt \in PricePoints}
    \cup {[fn |-> "monthly", arg |-> f] : f \in Frames}

FnInit ==
    /\ call \in Calls /\ ret = NoRet
    /\ upstream = Both(<<>>) /\ rangeBy = "instant" /\ persisted = Both(NoFile)
    /\ clock = {} /\ cbs_api = {}
    /\ NoRun

\* Lines 241-246 for one DATE value: the key is relabelled and the label put
\* to the cutoff filter; the filter is also put to the key itself.
ApplyRelabel ==
    /\ call.fn = "relabel" /\ ret = NoRet
    /\ \E label \in {Relabel(call.arg)} :
           ret' = [fn |-> "relabel", label |-> label, gt_label |-> month_gt_mar25(label),
                   gt_key |-> month_gt_mar25(call.arg)]
    /\ UNCHANGED <<mainVars, call>>

\* The breakdown of one price point.
ApplyEnrich ==
    /\ call.fn = "enrich" /\ ret = NoRet
    /\ ret' = [fn |-> "enrich", row |-> Enrich(call.arg)]
    /\ UNCHANGED <<mainVars, call>>

\* Lines 190-191 and 207-208: the monthly rows of a frame.
ApplyMonthly ==
    /\ call.fn = "monthly" /\ ret = NoRet
    /\ ret' = [fn |-> "monthly", rows |-> build_monthly_csv(get_monthly_avg(call.arg))]
    /\ UNCHANGED <<mainVars, call>>

FnNext == ApplyRelabel \/ ApplyEnrich \/ ApplyMonthly

FnSpec == FnInit /\ [][FnNext]_vars

\* ------------------------------------------------------------ main() after March 2025

\* The electricity provider's series in spring 2025: a record in March, two
\* in April, one in May.
LiveElec ==
    << [wall |-> T(2025, 3, 20, 6), off |-> 0, val |-> 24013],
       [wall |-> T(2025, 4, 10, 6), off |-> 0, val |-> 25123],
       [wall |-> T(2025, 4, 20, 6), off |-> 0, val |-> 26238],
       [wall |-> T(2025, 5, 5, 6),  off |-> 0, val |-> 27004] >>

\* The gas provider's series in spring 2025 (cents).
LiveGas ==
    << [wall |-> T(2025, 3, 20, 6), off |-> 0, val |-> 118],
       [wall |-> T(2025, 4, 10, 6), off |-> 0, val |-> 121],
       [wall |-> T(2025, 5, 5, 6),  off |-> 0, val |-> 130] >>

\* A series without the records of one month.
WithoutMonth(series, key) ==
    SelectRows(series, [i \in 1..Len(series) |-> month_str(ToUtc(series[i])) # key])

\* What the providers may hold: everything, or nothing yet for May
\* (electricity) or nothing for April (gas).
LiveUpstream ==
    {[elec |-> e, gas |-> g] : e \in {LiveElec, WithoutMonth(LiveElec, 202505)},
                               g \in {LiveGas, WithoutMonth(LiveGas, 202504)}}

\* The monthly files earlier runs left: up to March, or up to April with an
\* April value of the time.
LivePersisted ==
    {[elec |-> [exists |-> TRUE, rows |-> e], gas |-> [exists |-> TRUE, rows |-> g]] :
        e \in {<<[month |-> 202503, total_price |-> 24013]>>,
                <<[month |-> 202503, total_price |-> 24013],
                  [month |-> 202504, total_price |-> 25123]>>},
        g \in {<<[month |-> 202503, total_price |-> 118000]>>,
                <<[month |-> 202503, total_price |-> 118000],
                  [month |-> 202504, total_price |-> 121000]>>}}

\* The CBS answers: the months in order; May with no gas tariff yet; the
\* items out of order among an item of another VAT category, a yearly item
\* and a month without data; April twice; and no items at all.
LiveCbs ==
    { <<CbsItem(202503, 15000, 13000, 80000, 55000),
        CbsItem(202504, 15100, 13000, 81000, 55000),
        CbsItem(202505, 15234, 13001, 82000, 55000)>>,
      <<CbsItem(202504, 15100, 13000, 81000, 55000),
        CbsItem(202505, 15234, 13001, Null, Null)>>,
      <<CbsItem(202505, 15234, 13001, 82000, 55000),
        [CbsItem(202504, 14000, 11000, 70000, 45000) EXCEPT !.btw = "A048943"],
        [CbsItem(202500, 15000, 13000, 80000, 55000) EXCEPT !.monthly = FALSE],
        CbsItem(202504, 15100, 13000, 81000, 55000),
        CbsItem(202506, Null, 13000, 82000, Null)>>,
      <<CbsItem(202504, 15100, 13000, 81000, 55000),
        CbsItem(202504, 15200, 13000, 81500, 55000),
        CbsItem(202505, 15234, 13001, 82000, 55000)>>,
      <<>> }

\* The instants of the runs.
LiveClock == {T(2025, 5, 10, 12)}

LiveInit ==
    /\ upstream \in LiveUpstream
    /\ rangeBy = "instant"
    /\ persisted \in LivePersisted
    /\ clock = LiveClock /\ cbs_api = LiveCbs
    /\ NoRun
    /\ call = NoCall /\ ret = NoRet

SpecLive == LiveInit /\ [][Next]_vars

\* ------------------------------------------------------------ main() on any files

\* A row of a monthly file.
MonthRow(month, total_price) == [month |-> month, total_price |-> total_price]

\* The monthly files a run may find: none, one without rows, one without a
\* 'month' column, one whose last month is '2021-13', one with its rows out
\* of order, one in order, and one whose last month is after the run.
AnyFiles ==
    { NoFile,
      [exists |-> TRUE, rows |-> <<>>],
      [exists |-> TRUE, rows |-> <<[maand |-> 202101, total_price |-> 100]>>],
      [exists |-> TRUE, rows |-> <<MonthRow(202101, 100), MonthRow(202113, 300)>>],
      [exists |-> TRUE, rows |-> <<MonthRow(202102, 200), MonthRow(202101, 100)>>],
      [exists |-> TRUE, rows |-> <<MonthRow(202101, 100), MonthRow(202102, 200)>>],
      [exists |-> TRUE, rows |-> <<MonthRow(202106, 600), MonthRow(202107, 700)>>] }

AnyInit ==
    /\ upstream = Both(Baseline)
    /\ rangeBy = "instant"
    /\ persisted \in [Commodities -> AnyFiles]
    /\ clock = NowChoices /\ cbs_api = {CbsEpoch}
    /\ NoRun
    /\ call = NoCall /\ ret = NoRet

SpecAny == AnyInit /\ [][Next]_vars

\* ------------------------------------------------------------ main() on sorted files

\* Sorted monthly files of earlier runs, their months with or without
\* records at the providers by now.
SortedFiles ==
    { [exists |-> TRUE, rows |-> <<MonthRow(202101, 100)>>],
      [exists |-> TRUE, rows |-> <<MonthRow(202101, 100), MonthRow(202102, 200)>>],
      [exists |-> TRUE, rows |-> <<MonthRow(202102, 200), MonthRow(202106, 600)>>] }

SortedInit ==
    /\ \E s \in Series : upstream = Both(s)
    /\ rangeBy \in {"instant", "wall"}
    /\ \E f \in SortedFiles : persisted = Both(f)
    /\ clock = NowChoices /\ cbs_api = {CbsEpoch}
    /\ NoRun
    /\ call = NoCall /\ ret = NoRet

SpecSorted == SortedInit /\ [][Next]_vars

\* ------------------------------------------------------------ properties

\* The rows are in strictly ascending month order (so no month occurs twice).
StrictlyAscending(rows) == \A i \in 1..(Len(rows) - 1) : rows[i].month < rows[i + 1].month

\* The run has fetched commodity c and decided its branch.
Fetched(c) == IF c = "elec" THEN pc \in {"gas", "compare"} ELSE pc = "compare"

\* The month of the last row of the file the run found: the watermark month Mk.
LastMonth(c) == before[c].rows[Len(before[c].rows)].month

\* The case of C1 for commodity c: the run found a non-empty sorted file, took
\* the merge branch, and the fresh aggregates start at the watermark month.
CoversFromWatermark(c) ==
    /\ pc = "compare"
    /\ before[c].rows # <<>>
    /\ StrictlyAscending(before[c].rows)
    /\ merged[c]
    /\ new[c][1].month = LastMonth(c)

\* C1: when the file a run found is sorted with unique months M1..Mk and the
\* fresh aggregates cover Mk..Mn, the written file is the rows M1..M(k-1) as
\* they were followed by the fresh rows Mk..Mn, strictly ascending by month.
MergeCorrect ==
    \A c \in Commodities :
        CoversFromWatermark(c) =>
            /\ persisted[c].rows =
                   SubSeq(before[c].rows, 1, Len(before[c].rows) - 1) \o new[c]
            /\ StrictlyAscending(persisted[c].rows)

\* A run replaced the value of the watermark month, kept a month before it
\* and appended a later month.
MergeCorrectWitness ==
    \E c \in Commodities :
        /\ CoversFromWatermark(c)
        /\ Len(before[c].rows) >= 2
        /\ Len(new[c]) >= 2
        /\ new[c][1].total_price # before[c].rows[Len(before[c].rows)].total_price

\* C2: after a run, every row the run found with a month before the
\* watermark month is in the written file with its value.
PrefixPreserved ==
    pc = "compare" =>
        \A c \in Commodities : \A i \in 1..Len(before[c].rows) :
            before[c].rows[i].month < month_str(start[c]) =>
                \E j \in 1..Len(persisted[c].rows) : persisted[c].rows[j] = before[c].rows[i]

\* C3: a run that follows a run at the same instant, no fetch of either
\* having failed, writes the files the earlier run wrote.
MergeIdempotent ==
    (pc = "compare" /\ prev.valid /\ prev.clean /\ CleanRun /\ prev.now = now) =>
        \A c \in Commodities : persisted[c].rows = prev.rows[c]

\* C4: every persisted file has its rows in strictly ascending month order,
\* hence at most one row per month.
PersistedSortedUnique ==
    \A c \in Commodities : StrictlyAscending(persisted[c].rows)

\* A second run merged into a file of several months.
PersistedSortedUniqueWitness ==
    /\ pc = "compare" /\ runs = 2
    /\ \E c \in Commodities :
           merged[c] /\ Len(before[c].rows) >= 2 /\ Len(persisted[c].rows) >= 2

\* C5: when the fetch of a commodity gave None or an empty frame, the run
\* goes on with the existing rows as that commodity's output and, once it has
\* written, the file holds the rows it held before the run, in their order.
EmptyFetchFallback ==
    \A c \in Commodities :
        (Fetched(c) /\ IsEmptyFrame(df[c])) =>
            /\ out[c] = before[c].rows
            /\ pc = "compare" => persisted[c] = [exists |-> TRUE, rows |-> before[c].rows]

\* A run reached the comparison step after an electricity fetch that gave
\* None and a gas fetch that gave an empty frame, both files holding several
\* rows.
EmptyFetchFallbackWitness ==
    /\ pc = "compare"
    /\ df.elec.kind = "None" /\ df.gas.kind = "df" /\ df.gas.rows = <<>>
    /\ Len(before.elec.rows) >= 2 /\ Len(before.gas.rows) >= 2

\* The electricity fetch failed: a network error, a non-2xx status or an
\* unrecognised payload.
ElecFetchFailed ==
    Fetched("elec") /\ (elec_resp.status # 200 \/ elec_resp.shape \notin RecognisedShapes)

\* Every gas batch of the run failed.
GasFetchFailed ==
    Fetched("gas") /\ served # <<>> /\ \A i \in 1..Len(served) : ~served[i].ok

\* C6: when the fetch of a commodity failed entirely, the run does not take
\* the merge branch for it and its file holds after the run the rows it held
\* before.
FailedFetchSafe ==
    /\ ElecFetchFailed =>
           /\ ~merged.elec
           /\ pc = "compare" => persisted.elec.rows = before.elec.rows
    /\ GasFetchFailed =>
           /\ ~merged.gas
           /\ persisted.gas.rows = before.gas.rows

\* Both fetches of a run failed on files that held rows.
FailedFetchSafeWitness ==
    /\ pc = "compare" /\ ElecFetchFailed /\ GasFetchFailed
    /\ Len(served) >= 2
    /\ before.elec.rows # <<>> /\ before.gas.rows # <<>>

ElecItems == ServeThrough(upstream.elec, start.elec, now + Days(1), rangeBy)

BatchFailureAborts ==
    (pc = "compare" /\ \E i \in 1..Len(served) : ~served[i].ok) => ~merged.gas

\* The records the gas provider returned in this run, in batch order and
\* within a batch in response order.
ServedItems ==
    LET RECURSIVE From(_)
        From(i) == IF i > Len(served) THEN <<>> ELSE served[i].items \o From(i + 1)
    IN  From(1)

\* C9: for every day key, the record kept is the first record with a price
\* that the provider returned for that key.
FirstRecordKept ==
    pc = "compare" =>
        \A k \in 1..Len(all_daily_prices) :
            LET e == all_daily_prices[k]
                all   == ServedItems
                first == all[CHOOSE i \in 1..Len(all) :
                                 /\ all[i].val # Null /\ DateKey(all[i]) = e.key
                                 /\ \A j \in 1..(i - 1) :
                                        ~(all[j].val # Null /\ DateKey(all[j]) = e.key)]
            IN  e.wall = first.wall /\ e.off = first.off /\ e.price = first.val * 1000

\* C10: the day key of every record kept is the calendar date of its instant
\* in UTC, and no two records kept have the same UTC date.
DayKeyIsUtcDate ==
    pc = "compare" =>
        /\ \A k \in 1..Len(all_daily_prices) :
               all_daily_prices[k].key = UtcDate(all_daily_prices[k])
        /\ \A j, k \in 1..Len(all_daily_prices) :
               UtcDate(all_daily_prices[j]) = UtcDate(all_daily_prices[k]) => j = k

\* The sum of the prices of the rows with an index in I.
RECURSIVE PriceSum(_, _)
PriceSum(rows, I) ==
    IF I = {} THEN 0
    ELSE LET i == CHOOSE x \in I : TRUE
         IN  rows[i].price + PriceSum(rows, I \ {i})

\* The indices of the rows of a frame whose UTC timestamp lies in month key.
InMonth(rows, key) ==
    {i \in 1..Len(rows) :
        LET c == CivilFromDays(rows[i].time \div 24) IN c[1] * 100 + c[2] = key}

\* C11: for every frame a run fetched, get_monthly_avg gives one row per
\* month in which the frame has a UTC timestamp and no other row, in
\* ascending month order, and the value of a row is the unweighted mean of all
\* prices of its month: their sum over their number (so the row main stores,
\* rounded to 1e-5, is within half a unit of it).
MonthlyMean ==
    \A c \in Commodities :
        (Fetched(c) /\ ~IsEmptyFrame(df[c])) =>
            LET rows == df[c].rows
                avg  == get_monthly_avg(rows)
            IN  /\ \A i \in 1..Len(rows) : \E k \in 1..Len(avg) : i \in InMonth(rows, avg[k].month)
                /\ \A k \in 1..Len(avg) :
                       /\ InMonth(rows, avg[k].month) # {}
                       /\ avg[k].n = Cardinality(InMonth(rows, avg[k].month))
                       /\ avg[k].sum = PriceSum(rows, InMonth(rows, avg[k].month))
                       /\ k < Len(avg) => avg[k].month < avg[k + 1].month
                /\ Len(new[c]) = Len(avg)
                /\ \A k \in 1..Len(avg) :
                       LET d == avg[k].n * new[c][k].total_price - avg[k].sum
                       IN  new[c][k].month = avg[k].month /\ 2 * d <= avg[k].n /\ -2 * d <= avg[k].n

\* A frame with two different prices in one month and none in the months
\* between two others was aggregated.
MonthlyMeanWitness ==
    \E c \in Commodities :
        /\ Fetched(c) /\ ~IsEmptyFrame(df[c])
        /\ LET rows == df[c].rows
               avg  == get_monthly_avg(rows)
           IN  /\ \E i, j \in 1..Len(rows) :
                      /\ rows[i].price # rows[j].price
                      /\ \E k \in 1..Len(avg) : {i, j} \subseteq InMonth(rows, avg[k].month)
               /\ \E k \in 1..(Len(avg) - 1) : avg[k + 1].month > avg[k].month + 1

\* C15: for every month of every year of the pipeline's range, the cutoff
\* filter gives for the label 'mmm-yy' of a key 'YYYY-MM' the answer it gives
\* for the key, true exactly when the month is after 2025-03; the label
\* denotes the month of the key, so that a label denotes an earlier date than
\* the label of every later key.
LabelRoundTrip ==
    ret.fn = "relabel" =>
        /\ ret.label.fmt = "b-y"
        /\ ret.gt_label = ret.gt_key
        /\ ret.gt_label = (call.arg.ym > 202503)
        /\ LabelDate(ret.label) = T(call.arg.ym \div 100, call.arg.ym % 100, 1, 0)
        /\ \A k \in PipelineKeys :
               call.arg.ym < k => LabelDate(ret.label) < LabelDate(Relabel(Key(k)))

\* The labels on both sides of the cutoff and of a turn of the year have
\* been made: here mar-25, for which the filter says no.
LabelRoundTripWitness ==
    /\ ret.fn = "relabel" /\ ret.label = Label("mar", 25) /\ ~ret.gt_label

LiveRows == SubSeq(compare_file.rows, Len(Historical) + 1, Len(compare_file.rows))

\* The last run of main() reached line 254 and wrote the comparison file,
\* and no run began since.
JustWritten == pc = "idle" /\ prev.valid /\ prev.wrote

\* C13: Comparison-table month uniqueness.  Every comparison file written
\* begins with the 51 historical rows jan-21 .. mar-25 as they are, every
\* row below them has a month after March 2025, and no month label is in
\* two rows.
MonthsUnique ==
    compare_file.exists =>
        /\ Len(compare_file.rows) >= Len(Historical)
        /\ SubSeq(compare_file.rows, 1, Len(Historical)) = to_csv(Historical)
        /\ \A i \in 1..Len(LiveRows) : LabelDate(LiveRows[i].DATE) > T(2025, 3, 1, 0)
        /\ \A i, j \in 1..Len(compare_file.rows) :
               i # j => compare_file.rows[i].DATE # compare_file.rows[j].DATE

\* C14: Comparison-table ordering.  In every comparison file written the
\* month a row's label denotes is before the month of the next row's label.
ChronologicalOrder ==
    compare_file.exists =>
        \A i \in 1..(Len(compare_file.rows) - 1) :
            LabelDate(compare_file.rows[i].DATE) < LabelDate(compare_file.rows[i + 1].DATE)

\* The run's inputs lack one of the four values of the month: no CBS entry
\* of the month with an electricity total, none with a gas total, no row of
\* the month in the electricity dataset, or none in the gas dataset.
MissingValue(key) ==
    \/ ~\E i \in 1..Len(cbs_rates) : cbs_rates[i].period = key /\ cbs_rates[i].total # Null
    \/ ~\E i \in 1..Len(cbs_rates) : cbs_rates[i].period = key /\ cbs_rates[i].gas_total # Null
    \/ \E c \in Commodities :
           ~\E i \in 1..Len(persisted[c].rows) : persisted[c].rows[i].month = key

\* C18: Complete comparison rows.  Every row of the written comparison file
\* below the historical block has all four values, and after a run wrote
\* the file no month its inputs lack a value for is among those rows.
CompleteRows ==
    /\ compare_file.exists => \A i \in 1..Len(LiveRows) : Complete(LiveRows[i])
    /\ JustWritten =>
           \A key \in PipelineKeys :
               MissingValue(key) =>
                   \A i \in 1..Len(LiveRows) : LiveRows[i].DATE # Relabel(Key(key))

\* C18 witness: a run wrote a file with a live row while a later month had
\* CBS totals and a gas row, but no electricity row.
CompleteRowsWitness ==
    /\ JustWritten /\ Len(LiveRows) > 0
    /\ \E i \in 1..Len(cbs_rates) :
           /\ cbs_rates[i].period = 202505
           /\ cbs_rates[i].total # Null /\ cbs_rates[i].gas_total # Null
    /\ \E i \in 1..Len(persisted.gas.rows) : persisted.gas.rows[i].month = 202505
    /\ ~\E i \in 1..Len(persisted.elec.rows) : persisted.elec.rows[i].month = 202505

Unsorted(rows) ==
    /\ rows # <<>> /\ HasMonthColumn(rows)
    /\ \E i \in 1..(Len(rows) - 1) : rows[i].month > rows[i + 1].month

\* C16: Unsorted persisted dataset is rejected.  A run that found a monthly
\* file not sorted ascending by month goes no further than loading it: it
\* has no start date from the file and does not take the merge branch.
UnsortedRejected ==
    \A c \in Commodities :
        (pc # "idle" /\ Unsorted(before[c].rows)) => (start[c] = 0 /\ ~merged[c])

\* The start date the last row of a file names: the first day of its month,
\* 2021-01-01 when there is no file, no row, no 'month' column or no month
\* 01..12 in the last row.
WatermarkOf(file) ==
    IF /\ file.exists /\ file.rows # <<>>
       /\ "month" \in DOMAIN file.rows[Len(file.rows)]
       /\ (file.rows[Len(file.rows)].month % 100) \in 1..12
    THEN T(file.rows[Len(file.rows)].month \div 100, file.rows[Len(file.rows)].month % 100, 1, 0)
    ELSE T(2021, 1, 1, 0)

\* C17: Watermark selection.  In every run the start date of each commodity
\* is the first day of the month of the last row of its file as the run
\* found it, and 2021-01-01 when the file is missing, has no rows, no
\* 'month' column or a last month that does not parse.
WatermarkSelection ==
    pc # "idle" => \A c \in Commodities : start[c] = WatermarkOf(before[c])

\* C17 witness: a run whose electricity file has rows but no 'month' column
\* starts at 2021-01-01, and its gas file, out of order, gives the month of
\* its last row.
WatermarkSelectionWitness ==
    /\ pc = "elec"
    /\ before.elec.exists /\ before.elec.rows # <<>> /\ ~HasMonthColumn(before.elec.rows)
    /\ start.elec = T(2021, 1, 1, 0)
    /\ Unsorted(before.gas.rows) /\ start.gas = T(2021, 1, 1, 0)
    /\ before.gas.rows[1].month = 202102

\* ------------------------------------------------------------ the gas batches

\* The accumulator after the first n batches: the dict of each batch that
\* did not raise, merged in the order of the requests.
RECURSIVE AccumulatedUpTo(_)
AccumulatedUpTo(n) ==
    IF n = 0 THEN <<>>
    ELSE IF served[n].ok
         THEN DictUpdate(AccumulatedUpTo(n - 1), DailyFold(served[n].items, <<>>))
         ELSE AccumulatedUpTo(n - 1)

\* C20: Gas batch loop.  The batch requests of get_dynamic_gas_prices follow
\* one another: each window begins where the one before ended, the first at
\* the start date; none is empty, longer than 90 days or past the end date;
\* the next request begins where the last ended, and the accumulator then
\* holds every batch answered so far; the requests are no more than the 90
\* day windows the span needs, whether batches fail or not; and when the
\* loop has ended the windows reach the end date exactly, with no request
\* at all when the start date is not before the end date.
BatchWindows ==
    pc \in {"gas", "compare"} =>
        /\ \A i \in 1..Len(served) :
               /\ served[i].from < served[i].to
               /\ served[i].to - served[i].from <= Days(90)
               /\ served[i].to <= now
               /\ served[i].from = IF i = 1 THEN start.gas ELSE served[i - 1].to
        /\ current_start = IF served = <<>> THEN start.gas ELSE served[Len(served)].to
        /\ all_daily_prices = AccumulatedUpTo(Len(served))
        /\ served # <<>> => (Len(served) - 1) * Days(90) < now - start.gas
        /\ (pc = "compare" \/ ~(current_start < now)) =>
               IF start.gas >= now THEN served = <<>> ELSE served[Len(served)].to = now

\* C20 witness: the loop ended after three requests of which the second
\* failed.
BatchWindowsWitness ==
    /\ pc = "compare" /\ Len(served) = 3
    /\ served[1].ok /\ ~served[2].ok /\ served[3].ok
    /\ all_daily_prices # <<>>

\* The empty loop: the start date is after the end date and the loop ended
\* with no request.
EmptyLoopReached == pc = "compare" /\ start.gas >= now /\ served = <<>>

\* ------------------------------------------------------------ across runs

\* The month keys of the rows of a dataset.
MonthsOf(rows) == {rows[i].month : i \in 1..Len(rows)}

\* C21: No month is ever lost.  Whatever a run does to a monthly file, every
\* month key the file held is in the file afterwards.
NoMonthLost ==
    [][\A c \in Commodities :
          MonthsOf(persisted[c].rows) \subseteq MonthsOf(persisted'[c].rows)]_vars

\* C22: Watermark monotonicity.  When a run has written a monthly file that
\* it found sorted and with rows, the last month of the file is not before
\* the last month the run found.
WatermarkMonotone ==
    \A c \in Commodities :
        (pc = "compare" /\ before[c].rows # <<>> /\ StrictlyAscending(before[c].rows)) =>
            /\ persisted[c].rows # <<>>
            /\ persisted[c].rows[Len(persisted[c].rows)].month >= LastMonth(c)

====
